---- MODULE Spec2Model ----
(***************************************************************************)
(* Pipeline lifecycle and frame orchestration of wgpu_playground.          *)
(*                                                                         *)
(* The model follows one frame handler (App::request_redraw) step by step, *)
(* the hot-reload protocol of the lighting compute pass (MainRP), the      *)
(* window resize handler (App::resize) and the shader source file, which   *)
(* is the environment: it may be edited between any two steps.             *)
(***************************************************************************)
EXTENDS Integers, Sequences, FiniteSets, TLC

\* ------------------------------------------------------------------ bounds
MaxTime == 2      \* modification times are 0..MaxTime
MaxEdits == 2     \* number of edits of the shader source in one run
MaxDim == 2       \* window widths and heights are 0..MaxDim

Times == 0..MaxTime
ColorFormats == {"Rgba8Unorm", "Bgra8UnormSrgb"}
Sizes == (0..MaxDim) \X (0..MaxDim)
NonZeroSizes == {s \in Sizes : s[1] > 0 /\ s[2] > 0}
\* The sizes the window opens with: the smallest and a wide one.
InitialSizes == {<<1, 1>>, <<MaxDim, 1>>}

\* The recording order of one frame.
PassOrder == <<"GeometryPass", "ShadowPass", "LightingCompute", "SkyboxPass",
               "PostProcessPass">>

VARIABLES
    pc,               \* position of the single application thread
    srcTime,          \* modification time of src/shaders/main.wgsl
    srcValid,         \* whether the current content of the source compiles
    edits,            \* edits of the source so far
    colorFormat,      \* the color format the renderer passes to MainRP::new
    ppValid,          \* whether the post-process shader compiles at startup
    postProcess,      \* PostProcessManager::new: "none", "ok" or "err"
    mainRP,           \* the renderer's MainRP slot
    live,             \* handles of the compute pipelines that exist
    nextHandle,       \* next fresh pipeline handle
    constructed,      \* result of MainRP::new: "none", "ok" or "err"
    result,           \* PipelineRecreationResult of this frame's reload
    selfAtCall,       \* the pass try_recompile_shader was called on
    observedTime,     \* modification time read by need_recompile_shader
    compileAttempts,  \* compile_shader_if_needed calls in this reload
    retry,            \* how the source stands to the last failed reload
    queueWrites,      \* uniform buffer writes queued in this frame
    recorded,         \* passes recorded in this frame
    usedPipeline,     \* pipeline set by MainRP::render in this frame
    computeCmds,      \* commands MainRP::render recorded in this frame
    submittedCmds,    \* what the submitted command buffer contained
    rendererSize,     \* Renderer::size
    textures,         \* size of every intermediate texture
    bindGroups,       \* size of the texture each bind group refers to
    cameraAspect,     \* Camera::aspect as a reduced fraction
    origSize,         \* the size the renderer was created with
    lastNonZero,      \* last non-zero size a Resized event carried
    trip,             \* where a resize round trip stands
    isMovementEnabled, \* CameraController::is_movement_enabled
    speed,            \* Camera::current_speed_positive / _negative, per key
    rmbDown,          \* whether the last right-button event was a press
    stopped,          \* whether the last release stopped a moving camera
    cameraMoved       \* whether Camera::update moved the eye in this frame

vars == <<pc, srcTime, srcValid, edits, colorFormat, ppValid, postProcess,
          mainRP, live, nextHandle,
          constructed, result, selfAtCall, observedTime, compileAttempts, retry,
          queueWrites, recorded, usedPipeline, computeCmds, submittedCmds,
          rendererSize,
          textures, bindGroups, cameraAspect, origSize, lastNonZero, trip,
          isMovementEnabled, speed, rmbDown, stopped, cameraMoved>>

fileVars == <<srcTime, srcValid, edits>>
bootVars == <<colorFormat, ppValid, postProcess>>
inputVars == <<isMovementEnabled, speed, rmbDown, stopped>>
passVars == <<mainRP, live, nextHandle>>
reloadVars == <<result, selfAtCall, observedTime, compileAttempts>>
frameVars == <<queueWrites, recorded, usedPipeline, computeCmds,
               submittedCmds>>
sizeVars == <<rendererSize, textures, bindGroups, cameraAspect, origSize,
              lastNonZero, trip>>

\* The keys of the forward axis: W sets current_speed_positive.z, S sets
\* current_speed_negative.z; any other key code is "Other".
Keys == {"W", "S"}
KeyCodes == Keys \cup {"Other"}
ZeroSpeed == [k \in Keys |-> 0]

DeviceEvents ==
    [kind : {"Key"}, key : KeyCodes, state : {"Pressed", "Released"}]
    \cup {[kind |-> "MouseMotion", key |-> "Other", state |-> "Released"]}

\* ----------------------------------------------------------------- helpers
NoPass == [compute_pipeline |-> 0, shader_modification_time |-> 0,
           color_format |-> "none"]
NoResult == [tag |-> "None", pass |-> NoPass]

RECURSIVE Gcd(_, _)
Gcd(a, b) == IF b = 0 THEN a ELSE Gcd(b, a % b)

\* new_size.width as f32 / new_size.height as f32, kept exact.
AspectOf(size) == <<size[1] \div Gcd(size[1], size[2]),
                    size[2] \div Gcd(size[1], size[2])>>

AllTextures(size) == [gbuffer |-> size, shadow |-> size, pingpong |-> size]

\* PipelineBase::need_recompile_shader: strictly newer than the recorded time.
need_recompile_shader(current, recorded_time) == current > recorded_time

\* PipelineBase::compile_shader_if_needed: load, compile, read the timestamp.
compile_shader_if_needed(valid, mtime) ==
    IF valid THEN [ok |-> TRUE, last_write_time |-> mtime]
    ELSE [ok |-> FALSE, last_write_time |-> 0]

\* A constructor that forgets the compiled shader's timestamp.
new_internal_NoTimestamp(shader, handle, color_format) ==
    [compute_pipeline |-> handle,
     shader_modification_time |-> 0,
     color_format |-> color_format]

\* A constructor that always builds for one fixed color format.
new_internal_DefaultFormat(shader, handle, color_format) ==
    [compute_pipeline |-> handle,
     shader_modification_time |-> shader.last_write_time,
     color_format |-> "Rgba8Unorm"]

\* MainRP::new_internal
new_internal(shader, handle, color_format) ==
    [compute_pipeline |-> handle,
     shader_modification_time |-> shader.last_write_time,
     color_format |-> color_format]

\* -------------------------------------------------------------------- Init
Init ==
    /\ pc = "BootPostProcess"
    /\ ppValid \in BOOLEAN
    /\ postProcess = "none"
    /\ srcTime \in Times
    /\ srcValid \in BOOLEAN
    /\ edits = 0
    /\ colorFormat \in ColorFormats
    /\ mainRP = NoPass
    /\ live = {}
    /\ nextHandle = 1
    /\ constructed = "none"
    /\ result = NoResult
    /\ selfAtCall = NoPass
    /\ observedTime = 0
    /\ compileAttempts = 0
    /\ retry = "none"
    /\ queueWrites = <<>>
    /\ recorded = <<>>
    /\ usedPipeline = 0
    /\ computeCmds = <<>>
    /\ submittedCmds = <<>>
    /\ rendererSize \in InitialSizes
    /\ textures = AllTextures(rendererSize)
    /\ bindGroups = AllTextures(rendererSize)
    /\ cameraAspect = AspectOf(rendererSize)
    /\ origSize = rendererSize
    /\ lastNonZero = rendererSize
    /\ trip = "home"
    /\ isMovementEnabled = FALSE
    /\ speed = ZeroSpeed
    /\ rmbDown = FALSE
    /\ stopped = FALSE
    /\ cameraMoved = FALSE

\* How the source stands to the last failed reload: "failing" after a
\* failure, "retried" after a further failure of the same version, "fixed"
\* once that version was replaced by one that compiles, "recovered" after
\* the reload that followed, "none" otherwise.
AfterEdit(r, valid) ==
    IF r \in {"failing", "retried"} /\ valid THEN "fixed" ELSE "none"
AfterCheck(r) == IF r = "recovered" THEN "none" ELSE r
AfterUpToDate(r) == IF r \in {"fixed", "recovered"} THEN "none" ELSE r
AfterFailure(r) == IF r \in {"failing", "retried"} THEN "retried" ELSE "failing"
AfterSuccess(r) == IF r = "fixed" THEN "recovered" ELSE "none"

\* ------------------------------------------------------------- environment
\* The shader source is saved again: new content, new modification time.
EditSource ==
    /\ edits < MaxEdits
    /\ \E t \in Times, v \in BOOLEAN :
          /\ <<t, v>> # <<srcTime, srcValid>>
          /\ srcTime' = t
          /\ srcValid' = v
    /\ edits' = edits + 1
    /\ retry' = AfterEdit(retry, srcValid')
    /\ UNCHANGED <<inputVars, cameraMoved, pc, bootVars, passVars, constructed, reloadVars,
                   frameVars, sizeVars>>

\* ------------------------------------------------------------ construction
\* A manager that carries on without a pipeline when the constructor fails.
PostProcessManager_new_IgnoreError ==
    /\ pc = "BootPostProcess"
    /\ postProcess' = IF ppValid THEN "ok" ELSE "err"
    /\ pc' = "Boot"
    /\ UNCHANGED <<inputVars, cameraMoved, retry, fileVars, colorFormat, ppValid, passVars, constructed,
                   reloadVars, frameVars, sizeVars>>

\* PostProcessManager::new: PostProcessRP::new(device).await.unwrap()
PostProcessManager_new ==
    /\ pc = "BootPostProcess"
    /\ IF ppValid
       THEN /\ postProcess' = "ok"
            /\ pc' = "Boot"
       ELSE /\ postProcess' = "err"
            /\ pc' = "Aborted"
    /\ UNCHANGED <<inputVars, cameraMoved, retry, fileVars, colorFormat, ppValid, passVars, constructed,
                   reloadVars, frameVars, sizeVars>>

\* A constructor that creates the pipeline before it looks at the shader.
MainRP_new_PipelineFirst ==
    /\ pc = "Boot"
    /\ live' = live \cup {nextHandle}
    /\ nextHandle' = nextHandle + 1
    /\ LET shader == compile_shader_if_needed(srcValid, srcTime) IN
       IF shader.ok
       THEN /\ mainRP' = new_internal(shader, nextHandle, colorFormat)
            /\ constructed' = "ok"
            /\ pc' = "Idle"
       ELSE /\ constructed' = "err"
            /\ pc' = "Aborted"
            /\ mainRP' = mainRP
    /\ UNCHANGED <<inputVars, cameraMoved, retry, fileVars, bootVars, reloadVars, frameVars, sizeVars>>

\* MainRP::new, called while the application is built.
MainRP_new ==
    /\ pc = "Boot"
    /\ LET shader == compile_shader_if_needed(srcValid, srcTime) IN
       IF shader.ok
       THEN /\ mainRP' = new_internal(shader, nextHandle, colorFormat)
            /\ live' = live \cup {nextHandle}
            /\ nextHandle' = nextHandle + 1
            /\ constructed' = "ok"
            /\ pc' = "Idle"
       ELSE /\ constructed' = "err"
            /\ pc' = "Aborted"
            /\ UNCHANGED passVars
    /\ UNCHANGED <<inputVars, cameraMoved, retry, fileVars, bootVars, reloadVars, frameVars, sizeVars>>

\* ------------------------------------------------------------------- input
\* Camera::stop_movement: the camera stands still.
Camera_stop_movement(current_speed) == ZeroSpeed

\* Camera::handle_keyboard_event: a press sets the key's speed, a release
\* clears it; other keys do nothing.
Camera_handle_keyboard_event(current_speed, key, state) ==
    IF key \in Keys
    THEN [current_speed EXCEPT ![key] = IF state = "Pressed" THEN 1 ELSE 0]
    ELSE current_speed

\* Camera::process_device_events: is_rotation_enabled is false from
\* Camera::new on, so a mouse motion leaves the camera as it is.
Camera_process_device_events(current_speed, event) ==
    IF event.kind = "Key"
    THEN Camera_handle_keyboard_event(current_speed, event.key, event.state)
    ELSE current_speed

\* Camera::update: the eye moves unless positive - negative speed is zero.
Camera_update(current_speed) == current_speed["W"] - current_speed["S"] # 0

\* A controller that hands every device event to the camera.
CameraController_process_device_events_Ungated(enabled, current_speed, event) ==
    Camera_process_device_events(current_speed, event)

\* CameraController::process_device_events
CameraController_process_device_events(enabled, current_speed, event) ==
    IF enabled THEN Camera_process_device_events(current_speed, event)
    ELSE current_speed

\* A controller that leaves the camera moving when movement is disabled.
CameraController_set_is_movement_enabled_NoStop(value, current_speed) ==
    current_speed

\* CameraController::set_is_movement_enabled: the camera's speed afterwards.
CameraController_set_is_movement_enabled(value, current_speed) ==
    IF ~value THEN Camera_stop_movement(current_speed) ELSE current_speed

\* App::handle_window_event on WindowEvent::MouseInput with the right button
MouseInputRight ==
    /\ pc = "Idle"
    /\ \E pressed \in BOOLEAN :
          /\ isMovementEnabled' = pressed
          /\ speed' = CameraController_set_is_movement_enabled(pressed, speed)
          /\ rmbDown' = pressed
          /\ stopped' = IF pressed THEN FALSE
                        ELSE IF isMovementEnabled THEN speed # ZeroSpeed
                        ELSE stopped
    /\ UNCHANGED <<pc, retry, fileVars, bootVars, passVars, constructed,
                   reloadVars, frameVars, sizeVars, cameraMoved>>

\* App::handle_device_event
HandleDeviceEvent ==
    /\ pc = "Idle"
    /\ \E event \in DeviceEvents :
          speed' = CameraController_process_device_events(isMovementEnabled,
                                                         speed, event)
    /\ UNCHANGED <<pc, retry, fileVars, bootVars, passVars, constructed,
                   reloadVars, frameVars, sizeVars, isMovementEnabled,
                   rmbDown, stopped, cameraMoved>>

\* ------------------------------------------------------------------- frame
\* CameraController::update: queue.write_buffer of the camera uniform.
CameraController_update(writes) == Append(writes, "camera")

\* LightController::update: queue.write_buffer of the light uniform.
LightController_update(writes) == Append(writes, "light")

\* An update that refreshes the light before the camera.
App_update_LightFirst(writes) ==
    CameraController_update(LightController_update(writes))

\* App::update: the camera controller first, then the light controller.
App_update(writes) == LightController_update(CameraController_update(writes))

\* App::request_redraw up to the call of Renderer::render.
RequestRedraw ==
    /\ pc = "Idle"
    /\ pc' = "ReloadCheck"
    /\ queueWrites' = App_update(<<>>)
    /\ cameraMoved' = Camera_update(speed)
    /\ recorded' = <<>>
    /\ usedPipeline' = 0
    /\ computeCmds' = <<>>
    /\ submittedCmds' = <<>>
    /\ result' = NoResult
    /\ selfAtCall' = mainRP
    /\ observedTime' = 0
    /\ compileAttempts' = 0
    /\ UNCHANGED <<inputVars, retry, fileVars, bootVars, passVars, constructed, sizeVars>>

\* A reload check that also recompiles a source of equal modification time.
TryRecompileCheck_NotStrict ==
    /\ pc = "ReloadCheck"
    /\ observedTime' = srcTime
    /\ IF srcTime < mainRP.shader_modification_time
       THEN /\ result' = [tag |-> "AlreadyUpToDate", pass |-> NoPass]
            /\ retry' = AfterUpToDate(retry)
            /\ pc' = "GeometryPass"
       ELSE /\ result' = result
            /\ retry' = AfterCheck(retry)
            /\ pc' = "Compile"
    /\ UNCHANGED <<inputVars, cameraMoved, fileVars, bootVars, passVars, constructed, selfAtCall,
                   compileAttempts, frameVars, sizeVars>>

\* MainRP::try_recompile_shader, up to the first await: the timestamp check.
TryRecompileCheck ==
    /\ pc = "ReloadCheck"
    /\ observedTime' = srcTime
    /\ IF ~need_recompile_shader(srcTime, mainRP.shader_modification_time)
       THEN /\ result' = [tag |-> "AlreadyUpToDate", pass |-> NoPass]
            /\ retry' = AfterUpToDate(retry)
            /\ pc' = "GeometryPass"
       ELSE /\ result' = result
            /\ retry' = AfterCheck(retry)
            /\ pc' = "Compile"
    /\ UNCHANGED <<inputVars, cameraMoved, fileVars, bootVars, passVars, constructed, selfAtCall,
                   compileAttempts, frameVars, sizeVars>>

\* A reload that gives up the pass's pipeline when the compilation fails.
TryRecompileCompile_DropOnFailure ==
    /\ pc = "Compile"
    /\ compileAttempts' = compileAttempts + 1
    /\ LET shader == compile_shader_if_needed(srcValid, srcTime) IN
       IF shader.ok
       THEN /\ retry' = AfterSuccess(retry)
            /\ result' = [tag |-> "Success",
                          pass |-> new_internal(shader, nextHandle,
                                                mainRP.color_format)]
            /\ live' = live \cup {nextHandle}
            /\ nextHandle' = nextHandle + 1
            /\ mainRP' = mainRP
            /\ pc' = "Swap"
       ELSE /\ retry' = AfterFailure(retry)
            /\ result' = [tag |-> "Failed", pass |-> NoPass]
            /\ live' = live \ {mainRP.compute_pipeline}
            /\ mainRP' = [mainRP EXCEPT !.compute_pipeline = 0]
            /\ nextHandle' = nextHandle
            /\ pc' = "GeometryPass"
    /\ UNCHANGED <<inputVars, cameraMoved, fileVars, bootVars, constructed, selfAtCall,
                   observedTime, frameVars, sizeVars>>

\* A reload that unwraps the compilation: a failure ends the application.
TryRecompileCompile_PanicOnFailure ==
    /\ pc = "Compile"
    /\ compileAttempts' = compileAttempts + 1
    /\ LET shader == compile_shader_if_needed(srcValid, srcTime) IN
       IF shader.ok
       THEN /\ retry' = AfterSuccess(retry)
            /\ result' = [tag |-> "Success",
                          pass |-> new_internal(shader, nextHandle,
                                                mainRP.color_format)]
            /\ live' = live \cup {nextHandle}
            /\ nextHandle' = nextHandle + 1
            /\ pc' = "Swap"
       ELSE /\ retry' = AfterFailure(retry)
            /\ result' = [tag |-> "Failed", pass |-> NoPass]
            /\ UNCHANGED <<live, nextHandle>>
            /\ pc' = "Aborted"
    /\ UNCHANGED <<inputVars, cameraMoved, fileVars, bootVars, mainRP, constructed, selfAtCall,
                   observedTime, frameVars, sizeVars>>

\* A reload that destroys the pass's pipeline as soon as the new one exists.
TryRecompileCompile_InPlace ==
    /\ pc = "Compile"
    /\ compileAttempts' = compileAttempts + 1
    /\ LET shader == compile_shader_if_needed(srcValid, srcTime) IN
       IF shader.ok
       THEN /\ retry' = AfterSuccess(retry)
            /\ result' = [tag |-> "Success",
                          pass |-> new_internal(shader, nextHandle,
                                                mainRP.color_format)]
            /\ live' = (live \ {mainRP.compute_pipeline}) \cup {nextHandle}
            /\ nextHandle' = nextHandle + 1
            /\ pc' = "Swap"
       ELSE /\ retry' = AfterFailure(retry)
            /\ result' = [tag |-> "Failed", pass |-> NoPass]
            /\ UNCHANGED <<live, nextHandle>>
            /\ pc' = "GeometryPass"
    /\ UNCHANGED <<inputVars, cameraMoved, fileVars, bootVars, mainRP, constructed, selfAtCall,
                   observedTime, frameVars, sizeVars>>

\* A reload that records the time of a source it could not compile.
TryRecompileCompile_RememberFailure ==
    /\ pc = "Compile"
    /\ compileAttempts' = compileAttempts + 1
    /\ LET shader == compile_shader_if_needed(srcValid, srcTime) IN
       IF shader.ok
       THEN /\ retry' = AfterSuccess(retry)
            /\ result' = [tag |-> "Success",
                          pass |-> new_internal(shader, nextHandle,
                                                mainRP.color_format)]
            /\ live' = live \cup {nextHandle}
            /\ nextHandle' = nextHandle + 1
            /\ mainRP' = mainRP
            /\ pc' = "Swap"
       ELSE /\ retry' = AfterFailure(retry)
            /\ result' = [tag |-> "Failed", pass |-> NoPass]
            /\ UNCHANGED <<live, nextHandle>>
            /\ mainRP' = [mainRP EXCEPT !.shader_modification_time = srcTime]
            /\ pc' = "GeometryPass"
    /\ UNCHANGED <<inputVars, cameraMoved, fileVars, bootVars, constructed, selfAtCall,
                   observedTime, frameVars, sizeVars>>

\* MainRP::try_recompile_shader, the match on the compilation.
TryRecompileCompile ==
    /\ pc = "Compile"
    /\ compileAttempts' = compileAttempts + 1
    /\ LET shader == compile_shader_if_needed(srcValid, srcTime) IN
       IF shader.ok
       THEN /\ retry' = AfterSuccess(retry)
            /\ result' = [tag |-> "Success",
                          pass |-> new_internal(shader, nextHandle,
                                                mainRP.color_format)]
            /\ live' = live \cup {nextHandle}
            /\ nextHandle' = nextHandle + 1
            /\ pc' = "Swap"
       ELSE /\ retry' = AfterFailure(retry)
            /\ result' = [tag |-> "Failed", pass |-> NoPass]
            /\ UNCHANGED <<live, nextHandle>>
            /\ pc' = "GeometryPass"
    /\ UNCHANGED <<inputVars, cameraMoved, fileVars, bootVars, mainRP, constructed, selfAtCall,
                   observedTime, frameVars, sizeVars>>

\* The renderer takes the pass carried by Success; the old pipeline drops.
SwapPipeline ==
    /\ pc = "Swap"
    /\ mainRP' = result.pass
    /\ live' = live \ {mainRP.compute_pipeline}
    /\ pc' = "GeometryPass"
    /\ UNCHANGED <<inputVars, cameraMoved, retry, fileVars, bootVars, nextHandle, constructed, reloadVars,
                   frameVars, sizeVars>>

\* Recording of a pass other than the lighting pass.
RecordPass(name, next) ==
    /\ pc = name
    /\ recorded' = Append(recorded, name)
    /\ pc' = next
    /\ UNCHANGED <<inputVars, cameraMoved, retry, fileVars, bootVars, passVars, constructed, reloadVars,
                   queueWrites, usedPipeline, computeCmds, submittedCmds,
                   sizeVars>>

\* A frame that goes from the geometry pass straight to the lighting pass.
RecordGeometry_SkipShadow == RecordPass("GeometryPass", "LightingCompute")

RecordGeometry == RecordPass("GeometryPass", "ShadowPass")
RecordShadow == RecordPass("ShadowPass", "LightingCompute")

\* MainRP::create_pipeline_layout: the bind group layouts, slot 0 first.
create_pipeline_layout ==
    <<"LIGHT", "CAMERA", "GBUFFER", "SHADOW_DEPTH_TEXTURE", "COMPUTE_PING_PONG">>

\* The layout each bind group handed to MainRP::render was created with.
LayoutOfGroup ==
    [camera |-> "CAMERA", light |-> "LIGHT", gbuffer |-> "GBUFFER",
     shadow |-> "SHADOW_DEPTH_TEXTURE", pingpong |-> "COMPUTE_PING_PONG"]

SetPipeline(handle) ==
    [op |-> "set_pipeline", pipeline |-> handle, slot |-> 0, group |-> "",
     dims |-> <<>>]
SetBindGroup(index, bind_group) ==
    [op |-> "set_bind_group", pipeline |-> 0, slot |-> index,
     group |-> bind_group, dims |-> <<>>]
DispatchWorkgroups(x, y, z) ==
    [op |-> "dispatch_workgroups", pipeline |-> 0, slot |-> 0, group |-> "",
     dims |-> <<x, y, z>>]

\* A render that binds the camera at slot 0 and the light at slot 1.
MainRP_render_commands_SwappedSlots(pass, width, height) ==
    <<SetPipeline(pass.compute_pipeline),
      SetBindGroup(0, "camera"),
      SetBindGroup(1, "light"),
      SetBindGroup(2, "gbuffer"),
      SetBindGroup(3, "shadow"),
      SetBindGroup(4, "pingpong"),
      DispatchWorkgroups(width, height, 1)>>

\* A render that dispatches before the last bind group is set.
MainRP_render_commands_EarlyDispatch(pass, width, height) ==
    <<SetPipeline(pass.compute_pipeline),
      SetBindGroup(1, "camera"),
      SetBindGroup(0, "light"),
      SetBindGroup(2, "gbuffer"),
      SetBindGroup(3, "shadow"),
      DispatchWorkgroups(width, height, 1),
      SetBindGroup(4, "pingpong")>>

\* The body of MainRP::render: the commands it puts on the compute pass.
MainRP_render_commands(pass, width, height) ==
    <<SetPipeline(pass.compute_pipeline),
      SetBindGroup(1, "camera"),
      SetBindGroup(0, "light"),
      SetBindGroup(2, "gbuffer"),
      SetBindGroup(3, "shadow"),
      SetBindGroup(4, "pingpong"),
      DispatchWorkgroups(width, height, 1)>>

\* MainRP::render: set_pipeline(&self.compute_pipeline), binds, dispatch.
MainRP_render ==
    /\ pc = "LightingCompute"
    /\ usedPipeline' = mainRP.compute_pipeline
    /\ computeCmds' = MainRP_render_commands(mainRP, rendererSize[1],
                                             rendererSize[2])
    /\ recorded' = Append(recorded, "LightingCompute")
    /\ pc' = "SkyboxPass"
    /\ UNCHANGED <<inputVars, cameraMoved, retry, fileVars, bootVars, passVars, constructed, reloadVars,
                   queueWrites, submittedCmds, sizeVars>>

RecordSkybox == RecordPass("SkyboxPass", "PostProcessPass")
RecordPostProcess == RecordPass("PostProcessPass", "Submit")

\* queue.submit of the frame's command buffer.
Submit ==
    /\ pc = "Submit"
    /\ submittedCmds' = recorded
    /\ pc' = "Submitted"
    /\ UNCHANGED <<inputVars, cameraMoved, retry, fileVars, bootVars, passVars, constructed, reloadVars,
                   queueWrites, recorded, usedPipeline, computeCmds,
                   sizeVars>>

\* Renderer::render returns; the handler is over.
EndFrame ==
    /\ pc = "Submitted"
    /\ pc' = "Idle"
    /\ queueWrites' = <<>>
    /\ cameraMoved' = FALSE
    /\ recorded' = <<>>
    /\ usedPipeline' = 0
    /\ computeCmds' = <<>>
    /\ submittedCmds' = <<>>
    /\ result' = NoResult
    /\ selfAtCall' = NoPass
    /\ observedTime' = 0
    /\ compileAttempts' = 0
    /\ UNCHANGED <<inputVars, retry, fileVars, bootVars, passVars, constructed, sizeVars>>

\* ------------------------------------------------------------------ resize
\* Renderer::resize: every intermediate texture and bind group is rebuilt.
Renderer_resize(new_size) ==
    /\ rendererSize' = new_size
    /\ textures' = AllTextures(new_size)
    /\ bindGroups' = AllTextures(new_size)

\* A resize that compares only the width with the current size.
App_resize_WidthOnly(new_size) ==
    IF new_size[1] > 0 /\ new_size[2] > 0 /\ new_size[1] # rendererSize[1]
    THEN /\ Renderer_resize(new_size)
         /\ cameraAspect' = AspectOf(new_size)
    ELSE UNCHANGED <<rendererSize, textures, bindGroups, cameraAspect>>

\* A resize that only ever lets the output grow.
App_resize_GrowOnly(new_size) ==
    IF new_size[1] > 0 /\ new_size[2] > 0 /\ new_size # rendererSize
       /\ new_size[1] >= rendererSize[1] /\ new_size[2] >= rendererSize[2]
    THEN /\ Renderer_resize(new_size)
         /\ cameraAspect' = AspectOf(new_size)
    ELSE UNCHANGED <<rendererSize, textures, bindGroups, cameraAspect>>

\* A resize that forgets the camera.
App_resize_NoCamera(new_size) ==
    IF new_size[1] > 0 /\ new_size[2] > 0 /\ new_size # rendererSize
    THEN /\ Renderer_resize(new_size)
         /\ cameraAspect' = cameraAspect
    ELSE UNCHANGED <<rendererSize, textures, bindGroups, cameraAspect>>

\* App::resize
App_resize(new_size) ==
    IF new_size[1] > 0 /\ new_size[2] > 0 /\ new_size # rendererSize
    THEN /\ Renderer_resize(new_size)
         /\ cameraAspect' = AspectOf(new_size)
    ELSE UNCHANGED <<rendererSize, textures, bindGroups, cameraAspect>>

NextTrip(t, size) ==
    IF size = origSize
    THEN (IF t = "away" THEN "back" ELSE "home")
    ELSE (IF t \in {"home", "back"} THEN "away" ELSE "other")

\* App::handle_window_event on WindowEvent::Resized(new_size)
Resized ==
    /\ pc = "Idle"
    /\ \E new_size \in Sizes :
          /\ App_resize(new_size)
          /\ lastNonZero' = IF new_size \in NonZeroSizes THEN new_size
                            ELSE lastNonZero
          /\ trip' = NextTrip(trip, new_size)
    /\ UNCHANGED <<inputVars, cameraMoved, retry, pc, fileVars, bootVars, passVars, constructed,
                   reloadVars, frameVars, origSize>>

\* -------------------------------------------------------------------- Next
Next ==
    \/ EditSource
    \/ PostProcessManager_new
    \/ MainRP_new
    \/ RequestRedraw
    \/ TryRecompileCheck
    \/ TryRecompileCompile
    \/ SwapPipeline
    \/ RecordGeometry
    \/ RecordShadow
    \/ MainRP_render
    \/ RecordSkybox
    \/ RecordPostProcess
    \/ Submit
    \/ EndFrame
    \/ Resized
    \/ MouseInputRight
    \/ HandleDeviceEvent

Spec == Init /\ [][Next]_vars

\* The steps of the frame handler after it has been entered: straight-line
\* code on the one application thread, so a started frame runs to its end.
FrameStep ==
    \/ TryRecompileCheck
    \/ TryRecompileCompile
    \/ SwapPipeline
    \/ RecordGeometry
    \/ RecordShadow
    \/ MainRP_render
    \/ RecordSkybox
    \/ RecordPostProcess
    \/ Submit
    \/ EndFrame

LiveSpec == Init /\ [][Next]_vars /\ WF_vars(FrameStep)

TypeOK ==
    /\ srcTime \in Times
    /\ edits \in 0..MaxEdits
    /\ rendererSize \in NonZeroSizes

\* ------------------------------------------------------------------ claims
\* pc values at which try_recompile_shader has returned in this frame.
Recording == {"GeometryPass", "ShadowPass", "LightingCompute", "SkyboxPass",
              "PostProcessPass", "Submit", "Submitted"}
ReloadReturned == Recording \cup {"Swap"}

\* C1: once try_recompile_shader has returned, a source whose modification
\* time was equal to or earlier than the recorded one gave AlreadyUpToDate
\* with no compilation and the pass and its pipeline as they were; a strictly
\* later one was compiled exactly once.
C1_ReloadCheck ==
    pc \in ReloadReturned =>
        IF observedTime <= selfAtCall.shader_modification_time
        THEN /\ result.tag = "AlreadyUpToDate"
             /\ compileAttempts = 0
             /\ mainRP = selfAtCall
             /\ live = {selfAtCall.compute_pipeline}
        ELSE /\ result.tag \in {"Success", "Failed"}
             /\ compileAttempts = 1

C1_Witness ==
    /\ pc = "GeometryPass"
    /\ observedTime < selfAtCall.shader_modification_time
    /\ result.tag = "AlreadyUpToDate"

C1_WitnessCompiled ==
    /\ pc \in ReloadReturned
    /\ observedTime > selfAtCall.shader_modification_time
    /\ compileAttempts = 1

\* C2: a failed recompilation returns Failed and the pass keeps the same
\* pipeline handle, recorded time and color format it had before the call.
C2_FailedKeepsPipeline ==
    /\ [](result.tag = "Failed" =>
            /\ mainRP = selfAtCall
            /\ live = {selfAtCall.compute_pipeline})
    /\ [][(pc = "Compile" /\ pc' # "Compile" /\ ~srcValid) =>
            /\ result'.tag = "Failed"
            /\ mainRP' = mainRP
            /\ live' = live]_vars

C2_Witness ==
    /\ result.tag = "Failed"
    /\ pc = "Submitted"
    /\ usedPipeline = selfAtCall.compute_pipeline

\* C3 as stated: after a successful reload the recorded time is the time the
\* reload check saw, whatever happens to the source before the compilation.
C3_Original ==
    result.tag = "Success" =>
        result.pass.shader_modification_time = observedTime

\* C3 amended: the recorded time is the source's modification time at the
\* compile step; it is the time the check saw when the source was not saved
\* again in between. The renderer's slot then holds that pass.
C3_RecordsCompiledTime ==
    /\ [][(pc = "Compile" /\ result'.tag = "Success") =>
            /\ result'.pass.shader_modification_time = srcTime
            /\ (srcTime = observedTime =>
                   result'.pass.shader_modification_time = observedTime)]_vars
    /\ [](result.tag = "Success" /\ pc \in Recording => mainRP = result.pass)

C3_Witness ==
    /\ result.tag = "Success"
    /\ pc = "GeometryPass"
    /\ mainRP.shader_modification_time # observedTime
    /\ mainRP.shader_modification_time > 0

\* C4: a frame whose reload ended in Failed records and submits all of its
\* passes with the pipeline the pass had before, the frame ends, and the next
\* frame can start.
C4_FailedFrameRenders ==
    /\ [](result.tag = "Failed" /\ pc = "Submitted" =>
            /\ submittedCmds = PassOrder
            /\ usedPipeline = selfAtCall.compute_pipeline
            /\ usedPipeline \in live)
    /\ (result.tag = "Failed") ~> (result.tag = "Failed" /\ pc = "Submitted")
    /\ (result.tag = "Failed") ~> (pc = "Idle" /\ ENABLED RequestRedraw)

C4_Witness ==
    /\ result.tag = "Failed"
    /\ pc = "Submitted"
    /\ submittedCmds = PassOrder

\* C5: a constructed pass always holds one live pipeline; the only other
\* live pipeline is the one a Success result carries until it is swapped
\* in, and no pass is recorded while a reload is under way: the lighting
\* pass records with the pipeline the slot holds at the end of the reload.
C5_OneLivePipeline ==
    constructed = "ok" =>
        /\ mainRP.compute_pipeline # 0
        /\ mainRP.compute_pipeline \in live
        /\ live = {mainRP.compute_pipeline} \cup
                  (IF pc = "Swap" THEN {result.pass.compute_pipeline} ELSE {})
        /\ (pc = "Swap" => result.pass.compute_pipeline # mainRP.compute_pipeline)
        /\ (pc \in Recording =>
               /\ result.tag \in {"AlreadyUpToDate", "Success", "Failed"}
               /\ Cardinality(live) = 1)
        /\ (recorded # <<>> => pc \in Recording)
        /\ (usedPipeline # 0 => usedPipeline = mainRP.compute_pipeline)

C5_Witness ==
    /\ pc = "SkyboxPass"
    /\ result.tag = "Success"
    /\ usedPipeline = mainRP.compute_pipeline
    /\ usedPipeline # selfAtCall.compute_pipeline

\* C6: the passes of a frame are recorded in the order geometry, shadow,
\* lighting, skybox, post-process; the frame is submitted with all five and
\* then goes back to idle.
IsPrefix(s, t) == Len(s) <= Len(t) /\ s = SubSeq(t, 1, Len(s))

NextToRecord ==
    IF Len(recorded) < Len(PassOrder) THEN PassOrder[Len(recorded) + 1]
    ELSE "Submit"

C6_PassOrder ==
    /\ [](/\ IsPrefix(recorded, PassOrder)
          /\ (pc \in Recording \ {"Submitted"} => pc = NextToRecord)
          /\ (pc = "Submitted" =>
                 recorded = PassOrder /\ submittedCmds = PassOrder)
          /\ (pc # "Submitted" => submittedCmds = <<>>))
    /\ [][(pc = "Submitted" /\ pc' # pc) => pc' = "Idle"]_vars
    /\ [][recorded' # recorded =>
            \/ recorded' = <<>>
            \/ recorded' = Append(recorded, PassOrder[Len(recorded) + 1])]_vars

C6_Witness ==
    /\ pc = "SkyboxPass"
    /\ recorded = <<"GeometryPass", "ShadowPass", "LightingCompute">>

\* C7: in every frame the camera buffer and then the light buffer are
\* written, each once, before the first pass is recorded and before the
\* command buffer is submitted.
C7_UniformWrites ==
    /\ (pc \in Recording \cup {"ReloadCheck", "Compile", "Swap"} =>
           queueWrites = <<"camera", "light">>)
    /\ (recorded # <<>> \/ submittedCmds # <<>> =>
           queueWrites = <<"camera", "light">>)

C7_Witness ==
    /\ pc = "Submitted"
    /\ queueWrites = <<"camera", "light">>

\* C8: whenever a pass is recorded, every intermediate texture and every
\* bind group has the size of the last non-zero resize; a resize leaves the
\* pass and its pipeline alone.
C8_ResizeRebuilds ==
    /\ [](/\ rendererSize = lastNonZero
          /\ textures = AllTextures(lastNonZero)
          /\ bindGroups = textures)
    /\ [][(rendererSize' # rendererSize \/ lastNonZero' # lastNonZero) =>
            /\ mainRP' = mainRP
            /\ live' = live
            /\ nextHandle' = nextHandle]_vars

C8_Witness ==
    /\ pc = "LightingCompute"
    /\ rendererSize # origSize
    /\ bindGroups = AllTextures(rendererSize)

\* C9: after a resize away from the original size and a resize back to it,
\* the renderer, the textures and the bind groups have the original size.
C9_ResizeRoundTrip ==
    trip = "back" =>
        /\ rendererSize = origSize
        /\ textures = AllTextures(origSize)
        /\ bindGroups = AllTextures(origSize)

C9_Witness ==
    /\ trip = "back"
    /\ pc = "Idle"
    /\ textures = AllTextures(origSize)

\* C10: MainRP::new on a source that does not compile returns an error and
\* creates no pipeline and no pass; on a source that compiles it returns a
\* pass with a live pipeline, the source's timestamp and the color format.
C10_AllOrNothing ==
    /\ [](constructed = "err" =>
            /\ pc = "Aborted"
            /\ mainRP = NoPass
            /\ live = {}
            /\ nextHandle = 1)
    /\ [][pc = "Boot" /\ pc' # "Boot" =>
            IF srcValid
            THEN /\ constructed' = "ok"
                 /\ mainRP'.compute_pipeline \in live'
                 /\ mainRP'.compute_pipeline # 0
                 /\ Cardinality(live') = 1
                 /\ mainRP'.shader_modification_time = srcTime
                 /\ mainRP'.color_format = colorFormat
            ELSE constructed' = "err"]_vars

C10_Witness ==
    /\ constructed = "err"
    /\ pc = "Aborted"

C10_WitnessOk ==
    /\ constructed = "ok"
    /\ pc = "Idle"
    /\ mainRP.shader_modification_time > 0

\* C11: a pass whose shader does not compile at construction ends the
\* start-up for good: no frame is ever started, recorded or submitted unless
\* every pass was constructed and the lighting pass holds a live pipeline.
C11_ConstructionErrorIsFatal ==
    /\ [](constructed = "err" \/ postProcess = "err" => pc = "Aborted")
    /\ [](pc \notin {"BootPostProcess", "Boot", "Aborted"} \/ recorded # <<>> =>
            /\ constructed = "ok"
            /\ postProcess = "ok"
            /\ mainRP.compute_pipeline \in live)
    /\ [][pc = "Aborted" => pc' = "Aborted"]_vars

C11_Witness ==
    /\ pc = "Aborted"
    /\ postProcess = "err"

C11_WitnessMainRP ==
    /\ pc = "Aborted"
    /\ postProcess = "ok"
    /\ constructed = "err"

\* C12: the slot of every set_bind_group MainRP::render records holds, in
\* the pipeline layout, the layout that bind group was created with: light
\* at 0, camera at 1, g-buffer at 2, shadow at 3, ping-pong at 4, and every
\* slot of the layout is bound exactly once.
BindsOf(cmds) == SelectSeq(cmds, LAMBDA c : c.op = "set_bind_group")

C12_SlotsMatchLayout ==
    computeCmds # <<>> =>
        LET binds == BindsOf(computeCmds) IN
        /\ Len(binds) = Len(create_pipeline_layout)
        /\ \A i \in 1..Len(binds) :
              /\ binds[i].slot \in 0..(Len(create_pipeline_layout) - 1)
              /\ LayoutOfGroup[binds[i].group] =
                    create_pipeline_layout[binds[i].slot + 1]
        /\ \A n \in 0..(Len(create_pipeline_layout) - 1) :
              Cardinality({i \in 1..Len(binds) : binds[i].slot = n}) = 1
        /\ \E i \in 1..Len(binds) :
              binds[i].slot = 0 /\ binds[i].group = "light"
        /\ \E i \in 1..Len(binds) :
              binds[i].slot = 1 /\ binds[i].group = "camera"
        /\ \E i \in 1..Len(binds) :
              binds[i].slot = 2 /\ binds[i].group = "gbuffer"
        /\ \E i \in 1..Len(binds) :
              binds[i].slot = 3 /\ binds[i].group = "shadow"
        /\ \E i \in 1..Len(binds) :
              binds[i].slot = 4 /\ binds[i].group = "pingpong"

C12_Witness ==
    /\ pc = "SkyboxPass"
    /\ Len(BindsOf(computeCmds)) = 5

\* C16: MainRP::render records set_pipeline with the pass's pipeline first,
\* then the five bind groups, then one dispatch of (width, height, 1); the
\* step changes neither the pass nor the live pipelines and submits nothing.
C16_RenderOnlyRecords ==
    /\ [](computeCmds # <<>> =>
            /\ Len(computeCmds) = 7
            /\ computeCmds[1] = SetPipeline(mainRP.compute_pipeline)
            /\ \A i \in 2..6 : computeCmds[i].op = "set_bind_group"
            /\ {computeCmds[i].group : i \in 2..6} =
                  {"light", "camera", "gbuffer", "shadow", "pingpong"}
            /\ computeCmds[7] =
                  DispatchWorkgroups(rendererSize[1], rendererSize[2], 1))
    /\ [][(pc = "LightingCompute" /\ pc' # pc) =>
            /\ computeCmds' # <<>>
            /\ mainRP' = mainRP
            /\ live' = live
            /\ submittedCmds' = <<>>
            /\ submittedCmds = <<>>]_vars

C16_Witness ==
    /\ pc = "SkyboxPass"
    /\ Len(computeCmds) = 7
    /\ computeCmds[7].op = "dispatch_workgroups"
    /\ mainRP.compute_pipeline > 1

\* C13: with no change of the source since construction a reload check
\* returns AlreadyUpToDate; once the source was touched (one save, later
\* time, content compiles) the check that sees the touch returns Success
\* with a pass whose recorded time is strictly greater than before.
C13_EndToEndReload ==
    /\ (pc \in ReloadReturned /\ edits = 0 =>
           /\ result.tag = "AlreadyUpToDate"
           /\ mainRP.color_format = colorFormat)
    /\ (/\ pc \in ReloadReturned
        /\ edits = 1
        /\ srcValid
        /\ srcTime > selfAtCall.shader_modification_time
        /\ observedTime = srcTime
        => /\ result.tag = "Success"
           /\ result.pass.shader_modification_time >
                 selfAtCall.shader_modification_time
           /\ result.pass.color_format = colorFormat)

C13_Witness ==
    /\ pc = "Swap"
    /\ edits = 1
    /\ result.tag = "Success"
    /\ selfAtCall.color_format = colorFormat
    /\ result.pass.shader_modification_time >
          selfAtCall.shader_modification_time

\* C15: the pass a successful reload returns has the color format of the
\* pass the reload was called on, so the pass in the renderer's slot keeps
\* the format it was constructed with through every reload.
C15_ReloadKeepsColorFormat ==
    /\ (result.tag = "Success" =>
           result.pass.color_format = selfAtCall.color_format)
    /\ (constructed = "ok" => mainRP.color_format = colorFormat)

C15_Witness ==
    /\ pc = "GeometryPass"
    /\ result.tag = "Success"
    /\ nextHandle = 4
    /\ mainRP.color_format = "Bgra8UnormSrgb"

\* C17 as stated: from one state of a constructed pass to the next its
\* recorded time never decreases and changes only under a Success result.
C17_Original ==
    [][pc \notin {"BootPostProcess", "Boot"} =>
        /\ mainRP'.shader_modification_time >= mainRP.shader_modification_time
        /\ (mainRP'.shader_modification_time # mainRP.shader_modification_time
               => result.tag = "Success")]_vars

\* C17 amended: the recorded time changes only when the pass of a Success
\* result is swapped in; it then grows strictly when the compile step read
\* the time the check had seen, and it can shrink only when the source got
\* an earlier time between the check and the compile step.
C17_TimeChangesOnlyOnSuccess ==
    /\ [][(mainRP' # mainRP /\ pc \notin {"BootPostProcess", "Boot"}) =>
            /\ pc = "Swap"
            /\ result.tag = "Success"
            /\ mainRP' = result.pass]_vars
    /\ [][(pc = "Swap" /\ pc' # pc
            /\ result.pass.shader_modification_time = observedTime) =>
            mainRP'.shader_modification_time >
                mainRP.shader_modification_time]_vars
    /\ [][(pc \notin {"BootPostProcess", "Boot"}
            /\ mainRP'.shader_modification_time <
                  mainRP.shader_modification_time) =>
            /\ observedTime > mainRP.shader_modification_time
            /\ mainRP'.shader_modification_time < observedTime]_vars

C17_Witness ==
    /\ pc = "GeometryPass"
    /\ result.tag = "Success"
    /\ mainRP = result.pass
    /\ mainRP.shader_modification_time < selfAtCall.shader_modification_time

C17_WitnessGrows ==
    /\ pc = "GeometryPass"
    /\ result.tag = "Success"
    /\ mainRP.shader_modification_time > selfAtCall.shader_modification_time

\* C18: a step changes the renderer's size, its textures or the camera's
\* aspect ratio only by applying a new non-zero size that differs from the
\* current one, and then changes them together; a resize event of zero
\* width or height or of the current size changes none of them. Once a
\* resize has been applied the aspect ratio is width / height of the
\* renderer's size.
C18_ResizeGuardAndAspect ==
    /\ [](rendererSize # origSize \/ trip = "back" =>
            cameraAspect = AspectOf(rendererSize))
    /\ [][(\/ rendererSize' # rendererSize
            \/ textures' # textures
            \/ bindGroups' # bindGroups
            \/ cameraAspect' # cameraAspect) =>
            /\ rendererSize' \in NonZeroSizes
            /\ rendererSize' # rendererSize
            /\ rendererSize' = lastNonZero'
            /\ textures' = AllTextures(rendererSize')
            /\ cameraAspect' = AspectOf(rendererSize')]_vars
    /\ [][lastNonZero' = rendererSize =>
            /\ rendererSize' = rendererSize
            /\ textures' = textures
            /\ bindGroups' = bindGroups
            /\ cameraAspect' = cameraAspect]_vars
    /\ [][lastNonZero' # rendererSize =>
            /\ rendererSize' = lastNonZero'
            /\ textures' = AllTextures(lastNonZero')
            /\ cameraAspect' = AspectOf(lastNonZero')]_vars

C18_Witness ==
    /\ pc = "Idle"
    /\ rendererSize # origSize
    /\ cameraAspect = AspectOf(rendererSize)
    /\ cameraAspect # AspectOf(origSize)

\* The reload check and the compile step of try_recompile_shader completing.
CheckStep == pc = "ReloadCheck" /\ pc' # pc
CompileStep == pc = "Compile" /\ pc' # pc

\* C14 as stated: after a failed reload the recorded time is below the
\* failing source's time, so every reload of that version compiles again
\* and fails again; the first reload after the source was changed to a
\* version that compiles compiles it and returns Success.
C14_Original ==
    /\ [](retry \in {"failing", "retried"} =>
            /\ ~srcValid
            /\ srcTime > mainRP.shader_modification_time)
    /\ [][(CheckStep /\ retry \in {"failing", "retried"}) =>
            pc' = "Compile"]_vars
    /\ [][(CompileStep /\ retry \in {"failing", "retried"}) =>
            result'.tag = "Failed"]_vars
    /\ [][(CheckStep /\ retry = "fixed") => pc' = "Compile"]_vars
    /\ [][(CompileStep /\ retry = "fixed") => result'.tag = "Success"]_vars

\* C14 amended: a failed reload leaves the pass as it is. A later reload of
\* the same failing version compiles again and fails again when that
\* version's time is later than the recorded time, as it is when the source
\* was not saved between the check and the compile step of the failed
\* reload. The first reload after the fix returns Success when the fixed
\* source's time is later than the recorded time, and AlreadyUpToDate,
\* without compiling, when it is not.
C14_RetryAfterFailure ==
    /\ [](retry \in {"failing", "retried"} => ~srcValid)
    /\ [][(CompileStep /\ result'.tag = "Failed") =>
            /\ mainRP' = mainRP
            /\ retry' \in {"failing", "retried"}
            /\ (srcTime = observedTime =>
                   srcTime > mainRP'.shader_modification_time)]_vars
    /\ [][(CheckStep /\ retry \in {"failing", "retried", "fixed"}) =>
            IF srcTime > mainRP.shader_modification_time
            THEN pc' = "Compile"
            ELSE result'.tag = "AlreadyUpToDate" /\ compileAttempts' = 0]_vars
    /\ [][(CompileStep /\ retry \in {"failing", "retried"}) =>
            /\ result'.tag = "Failed"
            /\ compileAttempts' = 1]_vars
    /\ [][(CompileStep /\ retry = "fixed") =>
            /\ result'.tag = "Success"
            /\ result'.pass.shader_modification_time = srcTime]_vars

C14_Witness ==
    /\ retry = "recovered"
    /\ result.tag = "Success"
    /\ pc = "GeometryPass"
    /\ nextHandle = 3

C14_WitnessRetried ==
    /\ retry = "retried"
    /\ result.tag = "Failed"
    /\ pc = "Submitted"

C14_WitnessStale ==
    /\ retry = "none"
    /\ result.tag = "AlreadyUpToDate"
    /\ srcValid
    /\ edits = 2
    /\ srcTime < mainRP.shader_modification_time
    /\ nextHandle = 2

C19_WitnessMoving ==
    /\ isMovementEnabled
    /\ speed["W"] = 1
    /\ cameraMoved

====
